---- MODULE Spec2Model ----
(***************************************************************************)
(* couchdb-replicator.py: main() submits one do_replicate job per eligible *)
(* database to a ThreadPoolExecutor, then polls the futures once a second, *)
(* re-raising the first exception it finds and drawing a progress bar.     *)
(*                                                                         *)
(* Strings are sequences of one-character strings, so that startswith,     *)
(* split, strip and quote_plus are computed character by character.        *)
(***************************************************************************)
EXTENDS Integers, Sequences, FiniteSets, TLC

\* ------------------------------------------------------------------ bounds
\* Largest batch (DB list given on the command line or returned by _all_dbs).
MaxDbs == 3
\* Largest value of --concurrency tried (0 and -1 are tried too).
MaxConcurrency == 2
\* Longest DB list tried when the names are filtered.
MaxNames == 2

\* ------------------------------------------------------------------ inputs
\* Database names tried: a plain one, a system one, one that quote_plus changes.
DbNames == { <<"a">>, <<"_", "u">>, <<"a", " ", "b">> }

\* Values of --skip tried: absent (False), "z, a+b" ("a+b" is quote_plus("a b"),
\* and is found only once stripped), and "a b" (the name as given).
SkipArgs == { <<>>, <<"z", ",", " ", "a", "+", "b">>, <<"a", " ", "b">> }

\* What the remote end does with one POST to _replicate: {"ok": true},
\* {"ok": false}, an exception in requests.post / res.json() / ['ok'],
\* or no answer at all (requests.post is called without a timeout).
Responses == { "ok", "notok", "error", "hang" }

RECURSIVE SeqsUpTo(_, _)
SeqsUpTo(S, n) ==
    IF n = 0 THEN { <<>> }
    ELSE LET shorter == SeqsUpTo(S, n - 1)
         IN  shorter \cup { Append(s, x) : s \in { t \in shorter : Len(t) = n - 1 }, x \in S }

\* ------------------------------------------------------------------ state
VARIABLES
    args,              \* the parsed command line
    pc,                \* where main() is
    i,                 \* loop index of main(): into dbs, then into threads
    workers,           \* executor: worker thread -> job it runs (0: idle)
    queue,             \* executor: work queue of submitted, not yet started jobs
    threads,           \* main(): list of futures; threads[j] holds job j's db
    jpc,               \* per job: where do_replicate is
    out,               \* per job: how do_replicate ended
    triggers,          \* per job: the POSTs it has issued, in order
    answers,           \* per job: what came back for each POST, in order
    total,             \* main(): len(threads) at line 271
    done_threads,      \* main(): futures already counted
    new_threads_done,  \* main(): futures found done in this round
    progress,          \* last (iteration, total) given to printProgressBar
    result             \* how main() ended

vars == << args, pc, i, workers, queue, threads, jpc, out, triggers, answers,
           total, done_threads, new_threads_done, progress, result >>

mainv == << pc, i, threads, total, done_threads, new_threads_done, progress, result >>

\* --------------------------------------------------------- string helpers
\* str.startswith('_')
StartsWithUnderscore(db) == Len(db) > 0 /\ db[1] = "_"

\* urllib.parse.quote_plus on one character: letters and "_.-~" are kept,
\* a space becomes "+", anything else is percent-encoded.
QuoteChar(c) ==
    CASE c = " " -> <<"+">>
      [] c = "+" -> <<"%", "2", "B">>
      [] c = "," -> <<"%", "2", "C">>
      [] OTHER   -> <<c>>

RECURSIVE quote_plus(_)
quote_plus(s) ==
    IF s = <<>> THEN <<>> ELSE QuoteChar(Head(s)) \o quote_plus(Tail(s))

\* str.strip() for the whitespace tried here (spaces)
RECURSIVE LStrip(_)
LStrip(s) == IF s # <<>> /\ Head(s) = " " THEN LStrip(Tail(s)) ELSE s

RECURSIVE RStrip(_)
RStrip(s) ==
    IF s # <<>> /\ s[Len(s)] = " " THEN RStrip(SubSeq(s, 1, Len(s) - 1)) ELSE s

Strip(s) == RStrip(LStrip(s))

\* str.split(','): the list of fields (always at least one)
RECURSIVE SplitComma(_, _)
SplitComma(s, cur) ==
    IF s = <<>> THEN << cur >>
    ELSE IF Head(s) = "," THEN << cur >> \o SplitComma(Tail(s), <<>>)
    ELSE SplitComma(Tail(s), Append(cur, Head(s)))

\* lines 225-228: skip_db, as the set of its elements
skip_db(skip) ==
    IF skip # <<>>
    THEN LET parts == SplitComma(skip, <<>>)
         IN  { Strip(parts[k]) : k \in DOMAIN parts }
    ELSE {}

\* line 252
IsSkippedSystem(db, system_dbs) == StartsWithUnderscore(db) /\ ~system_dbs

\* (mutant) only the name as given is looked up
IsSkippedListedRawOnly(db, skip) == db \in skip_db(skip)

\* line 257
IsSkippedListed(db, skip) ==
    db \in skip_db(skip) \/ quote_plus(db) \in skip_db(skip)

\* ------------------------------------------------------------ do_replicate
\* (mutant) the two entries of the dict of lines 74-75 swapped
replicate_url_swapped(use_target) == IF use_target THEN "source" ELSE "target"

\* lines 74-75
replicate_url(use_target) == IF use_target THEN "target" ELSE "source"

\* the POST of line 78 (continuous absent) or line 100 (continuous True)
Trigger(j, cont) ==
    [ url |-> replicate_url(args.use_target), db |-> threads[j], continuous |-> cont ]

\* (mutant) line 88 missing: a refused first POST does not end the job
AfterInitialNoReturn(r, continuous) ==
    CASE r = "hang"  -> [ jpc |-> "blocked",  out |-> "none" ]
      [] r = "error" -> [ jpc |-> "finished", out |-> "Error" ]
      [] OTHER       -> IF continuous
                        THEN [ jpc |-> "post2",    out |-> "none" ]
                        ELSE [ jpc |-> "finished",
                               out |-> IF r = "notok" THEN "FailedInitial" ELSE "Succeeded" ]

\* (mutant) a transport error makes the job try its first POST again
AfterInitialRetry(r, continuous) ==
    CASE r = "hang"  -> [ jpc |-> "blocked",  out |-> "none" ]
      [] r = "error" -> [ jpc |-> "post1",    out |-> "none" ]
      [] r = "notok" -> [ jpc |-> "finished", out |-> "FailedInitial" ]
      [] OTHER       -> IF continuous
                        THEN [ jpc |-> "post2",    out |-> "none" ]
                        ELSE [ jpc |-> "finished", out |-> "Succeeded" ]

\* lines 86-94: what the job does with the answer to its first POST
AfterInitial(r, continuous) ==
    CASE r = "hang"  -> [ jpc |-> "blocked",  out |-> "none" ]
      [] r = "error" -> [ jpc |-> "finished", out |-> "Error" ]
      [] r = "notok" -> [ jpc |-> "finished", out |-> "FailedInitial" ]
      [] OTHER       -> IF continuous
                        THEN [ jpc |-> "post2",    out |-> "none" ]
                        ELSE [ jpc |-> "finished", out |-> "Succeeded" ]

\* (mutant) line 111 prints the message of line 87
AfterContinuousWrongMessage(r) ==
    CASE r = "hang"  -> [ jpc |-> "blocked",  out |-> "none" ]
      [] r = "error" -> [ jpc |-> "finished", out |-> "Error" ]
      [] r = "notok" -> [ jpc |-> "finished", out |-> "FailedInitial" ]
      [] OTHER       -> [ jpc |-> "finished", out |-> "Succeeded" ]

\* lines 110-116: what the job does with the answer to its second POST
AfterContinuous(r) ==
    CASE r = "hang"  -> [ jpc |-> "blocked",  out |-> "none" ]
      [] r = "error" -> [ jpc |-> "finished", out |-> "Error" ]
      [] r = "notok" -> [ jpc |-> "finished", out |-> "FailedContinuous" ]
      [] OTHER       -> [ jpc |-> "finished", out |-> "Succeeded" ]

\* ------------------------------------------------------------ the futures
Jobs == 1..Len(threads)

\* Future.done()
thread_done(j) == jpc[j] = "finished"

\* (mutant) a job that printed a failure message is taken to have raised
thread_exception_remote(j) ==
    out[j] \in { "Error", "FailedInitial", "FailedContinuous" }

\* Future.exception() is not None
thread_exception(j) == out[j] = "Error"

\* a job that a worker thread is executing
Running(j) == jpc[j] \in { "post1", "post2", "blocked" }

\* ------------------------------------------------------------------- Init
\* Command lines tried. Batches: the first k of a list of plain names, with
\* every pool size, and with --quiet, with --permanent or with neither (the
\* polling loop reads the first, the jobs read the second).
BatchDbs == << <<"a">>, <<"b">>, <<"c">>, <<"d">>, <<"e">> >>

ArgsBatch ==
    { a \in [ dbs         : { SubSeq(BatchDbs, 1, k) : k \in 0..MaxDbs },
              skip        : { <<>> },
              concurrency : (-1)..MaxConcurrency,
              system_dbs  : { FALSE },
              permanent   : BOOLEAN,
              use_target  : { FALSE },
              quiet       : BOOLEAN ] : ~(a.quiet /\ a.permanent) }

\* Names and job options: every list of up to MaxNames names, with and
\* without --skip, --system_dbs, --permanent and --use_target, one worker.
ArgsNames ==
    [ dbs         : SeqsUpTo(DbNames, MaxNames),
      skip        : SkipArgs,
      concurrency : { 1 },
      system_dbs  : BOOLEAN,
      permanent   : BOOLEAN,
      use_target  : BOOLEAN,
      quiet       : { FALSE } ]

Args == ArgsBatch \cup ArgsNames

\* The command lines tried under fair scheduling: those of Args without
\* --quiet, --use_target and --system_dbs, and with --permanent only together
\* with --skip (the pool sizes, the batches and the answers are all kept).
ArgsFair ==
    { a \in Args : /\ ~a.quiet
                   /\ ~a.use_target
                   /\ ~a.system_dbs
                   /\ a.permanent => a.skip # <<>> }

Init ==
    /\ args \in Args
    /\ pc = "executor"
    /\ i = 1
    /\ workers = <<>>
    /\ queue = <<>>
    /\ threads = <<>>
    /\ jpc = <<>>
    /\ out = <<>>
    /\ triggers = <<>>
    /\ answers = <<>>
    /\ total = 0
    /\ done_threads = <<>>
    /\ new_threads_done = <<>>
    /\ progress = <<>>
    /\ result = [ kind |-> "none", n |-> 0, job |-> 0 ]

\* ----------------------------------------------------------------- main()
\* lines 241-243: ThreadPoolExecutor(max_workers=n) raises ValueError if n <= 0
\* (mutant) the pool starts one thread more than max_workers
PoolWorkersOneMore(n) == 1..(n + 1)

PoolWorkers(n) == 1..n

\* (mutant) only a negative max_workers is refused
RejectsMaxWorkersNegative(n) == n < 0

\* ThreadPoolExecutor.__init__: "max_workers must be greater than 0"
RejectsMaxWorkers(n) == n <= 0

ThreadPoolExecutor ==
    /\ pc = "executor"
    /\ IF RejectsMaxWorkers(args.concurrency)
       THEN /\ pc' = "raised"
            /\ result' = [ kind |-> "ValueError", n |-> 0, job |-> 0 ]
            /\ UNCHANGED workers
       ELSE /\ pc' = "submit"
            /\ workers' = [ w \in PoolWorkers(args.concurrency) |-> 0 ]
            /\ UNCHANGED result
    /\ UNCHANGED << args, i, queue, threads, jpc, out, triggers, answers, total,
                    done_threads, new_threads_done, progress >>

\* lines 251-255
SkipSystem ==
    /\ pc = "submit"
    /\ i <= Len(args.dbs)
    /\ IsSkippedSystem(args.dbs[i], args.system_dbs)
    /\ i' = i + 1
    /\ UNCHANGED << args, pc, workers, queue, threads, jpc, out, triggers, answers, total,
                    done_threads, new_threads_done, progress, result >>

\* lines 257-259
SkipListed ==
    /\ pc = "submit"
    /\ i <= Len(args.dbs)
    /\ ~IsSkippedSystem(args.dbs[i], args.system_dbs)
    /\ IsSkippedListed(args.dbs[i], args.skip)
    /\ i' = i + 1
    /\ UNCHANGED << args, pc, workers, queue, threads, jpc, out, triggers, answers, total,
                    done_threads, new_threads_done, progress, result >>

\* lines 261-268: executor.submit queues the job and returns its future
Submit ==
    /\ pc = "submit"
    /\ i <= Len(args.dbs)
    /\ ~IsSkippedSystem(args.dbs[i], args.system_dbs)
    /\ ~IsSkippedListed(args.dbs[i], args.skip)
    /\ threads' = Append(threads, quote_plus(args.dbs[i]))
    /\ queue' = Append(queue, Len(threads) + 1)
    /\ jpc' = Append(jpc, "queued")
    /\ out' = Append(out, "none")
    /\ triggers' = Append(triggers, <<>>)
    /\ answers' = Append(answers, <<>>)
    /\ i' = i + 1
    /\ UNCHANGED << args, pc, workers, total, done_threads, new_threads_done,
                    progress, result >>

\* lines 271-272
Submitted ==
    /\ pc = "submit"
    /\ i > Len(args.dbs)
    /\ total' = Len(threads)
    /\ done_threads' = <<>>
    /\ pc' = "while"
    /\ UNCHANGED << args, i, workers, queue, threads, jpc, out, triggers, answers,
                    new_threads_done, progress, result >>

\* (mutant) the loop stops one future short
WhileCondOffByOne == Len(done_threads) < total - 1

\* line 273
WhileCond == Len(done_threads) < total

\* line 273 true: start the list comprehension of line 274
While ==
    /\ pc = "while"
    /\ WhileCond
    /\ pc' = "scan"
    /\ i' = 1
    /\ new_threads_done' = <<>>
    /\ UNCHANGED << args, workers, queue, threads, jpc, out, triggers, answers, total,
                    done_threads, progress, result >>

\* line 273 false, lines 291-296: main() returns
Return ==
    /\ pc = "while"
    /\ ~WhileCond
    /\ pc' = "returned"
    /\ result' = [ kind |-> "Success", n |-> Len(threads), job |-> 0 ]
    /\ UNCHANGED << args, i, workers, queue, threads, jpc, out, triggers, answers, total,
                    done_threads, new_threads_done, progress >>

InSeq(x, s) == \E k \in DOMAIN s : s[k] = x

\* (mutant) nothing is picked up until every job has finished
ScanPickWhenAllDone(j) ==
    /\ ~InSeq(j, done_threads)
    /\ \A k \in Jobs : thread_done(k)

\* (mutant) "thread not in done_threads" missing
ScanPickAgain(j) == thread_done(j)

\* line 275: the filter of the list comprehension
ScanPick(j) == ~InSeq(j, done_threads) /\ thread_done(j)

\* lines 274-275: one element of the comprehension; the futures are read one
\* after the other while the workers keep running
Scan ==
    /\ pc = "scan"
    /\ i <= Len(threads)
    /\ new_threads_done' = IF ScanPick(i) THEN Append(new_threads_done, i)
                                          ELSE new_threads_done
    /\ i' = i + 1
    /\ UNCHANGED << args, pc, workers, queue, threads, jpc, out, triggers, answers, total,
                    done_threads, progress, result >>

\* (mutant) only the first future found done is inspected
FirstExceptionHeadOnly(s) ==
    IF s # <<>> /\ thread_exception(Head(s)) THEN Head(s) ELSE 0

\* (mutant) the exception is blamed on the first future found done
FirstExceptionBlamesHead(s) ==
    IF \E k \in DOMAIN s : thread_exception(s[k]) THEN Head(s) ELSE 0

\* (mutant) the list is walked from its end
RECURSIVE LastException(_)
LastException(s) ==
    IF s = <<>> THEN 0
    ELSE IF thread_exception(s[Len(s)]) THEN s[Len(s)]
    ELSE LastException(SubSeq(s, 1, Len(s) - 1))

\* lines 276-279: the first future of new_threads_done holding an exception, or 0
RECURSIVE FirstException(_)
FirstException(s) ==
    IF s = <<>> THEN 0
    ELSE IF thread_exception(Head(s)) THEN Head(s)
    ELSE FirstException(Tail(s))

\* (mutant) the re-raise tears the running jobs down
RaiseInterrupting ==
    /\ pc = "scan"
    /\ i > Len(threads)
    /\ FirstException(new_threads_done) # 0
    /\ pc' = "raised"
    /\ result' = [ kind |-> "Failure", n |-> 0, job |-> FirstException(new_threads_done) ]
    /\ jpc' = [ j \in DOMAIN jpc |-> IF Running(j) THEN "finished" ELSE jpc[j] ]
    /\ out' = [ j \in DOMAIN out |-> IF Running(j) THEN "Error" ELSE out[j] ]
    /\ workers' = [ w \in DOMAIN workers |-> 0 ]
    /\ UNCHANGED << args, i, queue, threads, triggers, answers, total,
                    done_threads, new_threads_done, progress >>

\* lines 276-279: raise(thread.exception()) leaves main()
Raise ==
    /\ pc = "scan"
    /\ i > Len(threads)
    /\ FirstException(new_threads_done) # 0
    /\ pc' = "raised"
    /\ result' = [ kind |-> "Failure", n |-> 0, job |-> FirstException(new_threads_done) ]
    /\ UNCHANGED << args, i, workers, queue, threads, jpc, out, triggers, answers, total,
                    done_threads, new_threads_done, progress >>

\* (mutant) the bar shows what finished in this round only
SnapshotOfRound(done) == << Len(new_threads_done), total >>

\* (mutant) the bar is drawn from the list as it was before line 280
SnapshotBeforeExtend(done) == << Len(done_threads), total >>

\* lines 282-288: the arguments of printProgressBar
Snapshot(done) == << Len(done), total >>

\* (mutant) lines 280-288 come before the check of lines 276-279
ExtendBeforeCheck ==
    /\ pc = "scan"
    /\ i > Len(threads)
    /\ done_threads' = done_threads \o new_threads_done
    /\ progress' = IF ~args.quiet THEN Snapshot(done_threads') ELSE progress
    /\ pc' = "while"
    /\ UNCHANGED << args, i, workers, queue, threads, jpc, out, triggers, answers, total,
                    new_threads_done, result >>

\* lines 280-289: extend, report unless quiet, sleep
Extend ==
    /\ pc = "scan"
    /\ i > Len(threads)
    /\ FirstException(new_threads_done) = 0
    /\ done_threads' = done_threads \o new_threads_done
    /\ progress' = IF ~args.quiet THEN Snapshot(done_threads') ELSE progress
    /\ pc' = "while"
    /\ UNCHANGED << args, i, workers, queue, threads, jpc, out, triggers, answers, total,
                    new_threads_done, result >>

main ==
    \/ ThreadPoolExecutor
    \/ SkipSystem
    \/ SkipListed
    \/ Submit
    \/ Submitted
    \/ While
    \/ Return
    \/ Scan
    \/ Raise
    \/ Extend

\* ------------------------------------------------------ the worker threads
\* An idle worker takes the oldest queued job and calls do_replicate
\* (lines 69-77). The workers outlive main(): the interpreter joins them at
\* exit, and the jobs still queued are run. Idle workers are interchangeable:
\* the one with the smallest index is taken to be the one that wakes up.
do_replicate_start(w) ==
    /\ w \in DOMAIN workers
    /\ workers[w] = 0
    /\ \A v \in DOMAIN workers : v < w => workers[v] # 0
    /\ queue # <<>>
    /\ workers' = [ workers EXCEPT ![w] = Head(queue) ]
    /\ queue' = Tail(queue)
    /\ jpc' = [ jpc EXCEPT ![Head(queue)] = "post1" ]
    /\ UNCHANGED << args, out, triggers, answers >>
    /\ UNCHANGED mainv

\* the worker is free again once the job has returned or raised
Release(w, j, to) == IF to = "finished" THEN [ workers EXCEPT ![w] = 0 ] ELSE workers

\* lines 78-94
do_replicate_initial(w) ==
    /\ w \in DOMAIN workers
    /\ workers[w] # 0
    /\ jpc[workers[w]] = "post1"
    /\ \E r \in Responses :
         LET j  == workers[w]
             to == AfterInitial(r, args.permanent)
         IN  /\ triggers' = [ triggers EXCEPT ![j] = Append(@, Trigger(j, FALSE)) ]
             /\ answers' = [ answers EXCEPT ![j] = Append(@, r) ]
             /\ jpc' = [ jpc EXCEPT ![j] = to.jpc ]
             /\ out' = [ out EXCEPT ![j] = to.out ]
             /\ workers' = Release(w, j, to.jpc)
    /\ UNCHANGED << args, queue >>
    /\ UNCHANGED mainv

\* lines 96-116
do_replicate_continuous(w) ==
    /\ w \in DOMAIN workers
    /\ workers[w] # 0
    /\ jpc[workers[w]] = "post2"
    /\ \E r \in Responses :
         LET j  == workers[w]
             to == AfterContinuous(r)
         IN  /\ triggers' = [ triggers EXCEPT ![j] = Append(@, Trigger(j, TRUE)) ]
             /\ answers' = [ answers EXCEPT ![j] = Append(@, r) ]
             /\ jpc' = [ jpc EXCEPT ![j] = to.jpc ]
             /\ out' = [ out EXCEPT ![j] = to.out ]
             /\ workers' = Release(w, j, to.jpc)
    /\ UNCHANGED << args, queue >>
    /\ UNCHANGED mainv

Worker(w) ==
    \/ do_replicate_start(w)
    \/ do_replicate_initial(w)
    \/ do_replicate_continuous(w)

WorkerIds == 1..(MaxConcurrency + 1)

Next ==
    \/ main
    \/ \E w \in WorkerIds : Worker(w)

Spec == Init /\ [][Next]_vars

\* main() runs, and every worker thread runs, whenever it can take a step
FairInit == Init /\ args \in ArgsFair

FairSpec ==
    /\ FairInit
    /\ [][Next]_vars
    /\ WF_vars(main)
    /\ \A w \in WorkerIds : WF_vars(Worker(w))

\* ================================================================ claims
\* A job whose do_replicate ended by printing a failure message (lines 87, 111)
FailedRemote(j) == out[j] \in { "FailedInitial", "FailedContinuous" }

\* A job that will never finish: its POST got no answer
Blocked(j) == jpc[j] = "blocked"

Ended == pc \in { "returned", "raised" }

\* ---------------------------------------------------------------------- C1
\* C1: with a valid pool size, if no job fails and every job finishes, main()
\* eventually returns success for N = len(threads) databases with
\* len(done_threads) = N; and whenever main() returns, all N jobs have been
\* counted, each exactly once, and each had finished.
C1_Returned ==
    /\ pc = "returned"
    /\ result = [ kind |-> "Success", n |-> Len(threads), job |-> 0 ]
    /\ total = Len(threads)
    /\ Len(done_threads) = total
    /\ \A j \in Jobs : thread_done(j) /\ InSeq(j, done_threads)

C1_SuccessCountsAll ==
    /\ [](pc = "returned" => C1_Returned)
    /\ <>( \/ C1_Returned
           \/ args.concurrency < 1
           \/ \E j \in Jobs : FailedRemote(j) \/ out[j] = "Error" \/ Blocked(j) )

C1_Witness ==
    /\ C1_Returned
    /\ total = 3
    /\ args.concurrency = 2
    /\ \A j \in Jobs : out[j] = "Succeeded"

\* ---------------------------------------------------------------------- C2
\* C2: with max_workers = c >= 1, at most c jobs are inside do_replicate at
\* any time, the running jobs are exactly those held by the workers, and a
\* worker lets go of a job only when that job has finished, becoming idle.
RunningJobs == { j \in Jobs : Running(j) }

C2_AtMostC ==
    args.concurrency >= 1 =>
        /\ Cardinality(RunningJobs) <= args.concurrency
        /\ RunningJobs = { workers[w] : w \in DOMAIN workers } \ { 0 }

C2_RunToCompletion ==
    \A w \in DOMAIN workers :
        (workers[w] # 0 /\ workers'[w] # workers[w]) =>
            (workers'[w] = 0 /\ jpc'[workers[w]] = "finished")

C2_BoundedConcurrency == []C2_AtMostC /\ [][C2_RunToCompletion]_vars

C2_Witness ==
    /\ args.concurrency = 2
    /\ Cardinality(RunningJobs) = 2
    /\ queue # <<>>

C4_ExceptionNeverSuccess ==
    /\ \A j \in Jobs :
           out[j] = "Error" =>
               /\ ~InSeq(j, done_threads)
               /\ result.kind # "Success"
               /\ Ended => result.kind = "Failure"
    /\ result.kind = "Failure" =>
           (result.job \in Jobs /\ out[result.job] = "Error")

C4_Witness ==
    /\ pc = "raised"
    /\ result.kind = "Failure"
    /\ out[result.job] = "Error"
    /\ \E k \in Jobs : out[k] = "Succeeded" /\ InSeq(k, done_threads)
    /\ \E k \in Jobs : out[k] = "Succeeded" /\ InSeq(k, new_threads_done)

C6_Step ==
    progress' # <<>> =>
        /\ progress'[2] = total'
        /\ total' = Len(threads')
        /\ 0 <= progress'[1]
        /\ progress'[1] <= progress'[2]
        /\ progress # <<>> =>
               (progress[1] <= progress'[1] /\ progress[2] = progress'[2])

C6_SnapshotsMonotone == [][C6_Step]_vars

C6_Witness ==
    /\ progress = << 2, 3 >>
    /\ Len(done_threads) = 2
    /\ pc = "scan"
    /\ new_threads_done = << 3 >>

\* ---------------------------------------------------------------------- C7
\* C7 as stated: whenever main() returns and --quiet is off, the last
\* snapshot given to printProgressBar is (total, total).
C7_Original ==
    (pc = "returned" /\ ~args.quiet) => progress = << total, total >>

\* C7 amended: whenever main() returns, --quiet is off and at least one job
\* was submitted, the last snapshot given to printProgressBar is
\* (total, total); with no job submitted printProgressBar is never called.
C7_FinalSnapshot ==
    (pc = "returned" /\ ~args.quiet) =>
        IF total > 0 THEN progress = << total, total >> ELSE progress = <<>>

C7_Witness ==
    /\ pc = "returned"
    /\ ~args.quiet
    /\ args.concurrency = 2
    /\ progress = << 3, 3 >>
    /\ \A j \in Jobs : out[j] = "Succeeded"

\* ---------------------------------------------------------------------- C8
AllFinished == \A j \in Jobs : thread_done(j)

OnlyRaiser(j) ==
    /\ j \in Jobs
    /\ out[j] = "Error"
    /\ \A k \in Jobs \ { j } : out[k] # "Error"

\* C8 as stated: in a batch where exactly one job raises, the number of jobs
\* counted when main() ends is the same in whatever order the jobs finish;
\* it is total - 1 when the raising job is the last one to be seen
\* (C8_CountWhenSeenLast is reachable), so it would be total - 1 in every order.
C8_Original ==
    (pc = "raised" /\ AllFinished /\ \E j \in Jobs : OnlyRaiser(j))
        => Len(done_threads) = total - 1

C8_CountWhenSeenLast ==
    /\ pc = "raised"
    /\ AllFinished
    /\ \E j \in Jobs : OnlyRaiser(j)
    /\ total = 3
    /\ Len(done_threads) = total - 1

\* C8 amended: once every job has finished and main() has ended, the result
\* depends on the jobs' outcomes alone, not on the order they finished in:
\* with no job raising it is Success with all total jobs counted; with
\* exactly one job raising it is the Failure of that job. (The number of jobs
\* counted when main() raises does depend on the order: anything from 0 to
\* total - 1.)
C8_ResultIgnoresOrder ==
    (Ended /\ AllFinished /\ args.concurrency >= 1) =>
        /\ (\A j \in Jobs : out[j] # "Error") =>
               /\ result = [ kind |-> "Success", n |-> total, job |-> 0 ]
               /\ Len(done_threads) = total
        /\ \A j \in Jobs :
               OnlyRaiser(j) =>
                   /\ result = [ kind |-> "Failure", n |-> 0, job |-> j ]
                   /\ Len(done_threads) \in 0..(total - 1)

C8_Witness ==
    /\ pc = "raised"
    /\ AllFinished
    /\ total = 3
    /\ OnlyRaiser(2)
    /\ result.job = 2
    /\ Len(done_threads) = 0
    /\ new_threads_done = << 1, 2, 3 >>

\* ---------------------------------------------------------------------- C9
\* C9: a job whose first POST was answered not-ok has finished having issued
\* that one POST only, without "continuous", whether or not --permanent is set.
C9_NoContinuousAfterRefusal ==
    \A j \in Jobs :
        (Len(answers[j]) >= 1 /\ answers[j][1] = "notok") =>
            /\ jpc[j] = "finished"
            /\ Len(triggers[j]) = 1
            /\ ~triggers[j][1].continuous
            /\ answers[j] = << "notok" >>

C9_Witness ==
    /\ args.permanent
    /\ \E j \in Jobs : answers[j] = << "notok" >> /\ jpc[j] = "finished"
    /\ \E j \in Jobs : Len(triggers[j]) = 2
    /\ Ended

\* --------------------------------------------------------------------- C10
\* C10: with --permanent, a job whose first POST was answered ok and whose
\* second POST was answered not-ok ends with the message of the continuous
\* phase (line 111), not the one of the initial phase (line 87), for the
\* database of that job, and its second POST was the continuous one.
C10_ContinuousPhaseNamed ==
    \A j \in Jobs :
        (args.permanent /\ answers[j] = << "ok", "notok" >>) =>
            /\ jpc[j] = "finished"
            /\ out[j] = "FailedContinuous"
            /\ out[j] # "FailedInitial"
            /\ Len(triggers[j]) = 2
            /\ triggers[j][2] = [ url        |-> replicate_url(args.use_target),
                                  db         |-> threads[j],
                                  continuous |-> TRUE ]

C10_Witness ==
    \E j \in Jobs :
        /\ args.permanent
        /\ args.use_target
        /\ answers[j] = << "ok", "notok" >>
        /\ out[j] = "FailedContinuous"
        /\ threads[j] = << "a", "+", "b" >>

\* --------------------------------------------------------------------- C11
\* C11: with --concurrency below 1 the pool is refused when it is created
\* (line 241 raises ValueError): main() ends there, no worker thread exists,
\* no job is submitted or started and no POST is issued.
C11_InvalidPoolRejected ==
    args.concurrency < 1 =>
        /\ pc \in { "executor", "raised" }
        /\ pc = "raised" => result = [ kind |-> "ValueError", n |-> 0, job |-> 0 ]
        /\ workers = <<>>
        /\ threads = <<>>
        /\ queue = <<>>
        /\ triggers = <<>>

C11_Witness ==
    /\ args.concurrency = 0
    /\ Len(args.dbs) = 3
    /\ pc = "raised"
    /\ result.kind = "ValueError"

\* --------------------------------------------------------------------- C12
\* C12: once main() has re-raised a job's exception, no job is submitted and
\* no job that was still queued is started: it stays queued and issues no POST.
C12_FailureRecorded == pc = "raised" /\ result.kind = "Failure"

C12_Step ==
    C12_FailureRecorded =>
        /\ threads' = threads
        /\ \A j \in Jobs :
               jpc[j] = "queued" => (jpc'[j] = "queued" /\ triggers'[j] = <<>>)

C12_NoDispatchAfterFailure == [][C12_Step]_vars

\* --------------------------------------------------------------------- C13
\* C13: len(done_threads) is always between 0 and len(threads) (total, once
\* line 271 has run), done_threads never holds a job twice and holds only
\* finished jobs, and from one state to the next it only grows at its end.
C13_Counted == { done_threads[k] : k \in DOMAIN done_threads }

C13_State ==
    /\ 0 <= Len(done_threads)
    /\ Len(done_threads) <= Len(threads)
    /\ pc \notin { "executor", "submit" } => Len(done_threads) <= total
    /\ Len(done_threads) = Cardinality(C13_Counted)
    /\ \A j \in C13_Counted : j \in Jobs /\ thread_done(j)

C13_Step ==
    /\ Len(done_threads') >= Len(done_threads)
    /\ SubSeq(done_threads', 1, Len(done_threads)) = done_threads

C13_CountedOnce == []C13_State /\ [][C13_Step]_vars

C13_Witness ==
    /\ total = 3
    /\ done_threads = << 2, 1, 3 >>
    /\ pc = "returned"

\* --------------------------------------------------------------------- C14
\* C14: a submitted job is in the queue at most once and only until a worker
\* takes it; it is started once (it enters do_replicate only from the queue
\* and never goes back), is held by exactly one worker while it runs, issues
\* each of its two POSTs at most once, has an outcome exactly when it has
\* finished, and once finished nothing about it changes any more.
C14_Holders(j) == { w \in DOMAIN workers : workers[w] = j }

C14_InQueue(j) == { k \in DOMAIN queue : queue[k] = j }

C14_Posts(j, cont) == { k \in DOMAIN triggers[j] : triggers[j][k].continuous = cont }

C14_State ==
    \A j \in Jobs :
        /\ Cardinality(C14_Holders(j)) = (IF Running(j) THEN 1 ELSE 0)
        /\ Cardinality(C14_InQueue(j)) = (IF jpc[j] = "queued" THEN 1 ELSE 0)
        /\ thread_done(j) <=> out[j] # "none"
        /\ Cardinality(C14_Posts(j, FALSE)) <= 1
        /\ Cardinality(C14_Posts(j, TRUE)) <= 1
        /\ Len(answers[j]) = Len(triggers[j])

C14_Step ==
    \A j \in Jobs :
        /\ (jpc'[j] = "post1" /\ jpc[j] # "post1") => jpc[j] = "queued"
        /\ jpc[j] # "queued" => jpc'[j] # "queued"
        /\ (Running(j) /\ Running(j)') => C14_Holders(j)' = C14_Holders(j)
        /\ thread_done(j) =>
               /\ jpc'[j] = "finished"
               /\ out'[j] = out[j]
               /\ triggers'[j] = triggers[j]
               /\ answers'[j] = answers[j]

C14_RunOnce == []C14_State /\ [][C14_Step]_vars

C14_Witness ==
    /\ pc = "raised"
    /\ args.concurrency = 2
    /\ total = 3
    /\ \A j \in Jobs : thread_done(j)
    /\ \A w \in DOMAIN workers : workers[w] = 0
    /\ \E j \in Jobs : out[j] = "Error"
    /\ \E j \in Jobs : out[j] = "Succeeded" /\ Len(triggers[j]) = 2

\* --------------------------------------------------------------------- C15
\* The orchestrator has observed job j once the comprehension of line 274 has
\* put it in new_threads_done, or once it is in done_threads.
C15_Observed(j) == InSeq(j, new_threads_done) \/ InSeq(j, done_threads)

C15_ErrorObserved == \E j \in Jobs : thread_exception(j) /\ C15_Observed(j)

C15_Step ==
    /\ C15_ErrorObserved =>
           /\ pc \in { "scan", "raised" }
           /\ pc' \in { "scan", "raised" }
           /\ progress' = progress
           /\ done_threads' = done_threads
    /\ (pc = "scan" /\ pc' = "while") =>
           /\ done_threads' = done_threads \o new_threads_done
           /\ ~args.quiet => progress' = << Len(done_threads) + Len(new_threads_done), total >>

C16_Abort == pc # "raised" /\ pc' = "raised" /\ result'.kind = "Failure"

C16_Frame ==
    /\ C16_Abort => UNCHANGED << workers, queue, threads, jpc, out, triggers, answers >>
    /\ C12_FailureRecorded => UNCHANGED mainv

\* what do_replicate makes of the answers a job got, abort or no abort
C16_Natural(ans, permanent) ==
    IF Len(ans) = 0 THEN "none"
    ELSE IF ans[1] = "error" THEN "Error"
    ELSE IF ans[1] = "notok" THEN "FailedInitial"
    ELSE IF ~permanent THEN "Succeeded"
    ELSE IF Len(ans) = 1 THEN "none"
    ELSE IF ans[2] = "error" THEN "Error"
    ELSE IF ans[2] = "notok" THEN "FailedContinuous"
    ELSE "Succeeded"

C16_Outcome ==
    C12_FailureRecorded =>
        \A j \in Jobs : thread_done(j) => out[j] = C16_Natural(answers[j], args.permanent)

\* a job that is in one of its POSTs (and has not been left without an answer)
C16_InFlight(j) == j \in Jobs /\ jpc[j] \in { "post1", "post2" }

C16_AtEnd(j) == j \in Jobs /\ (thread_done(j) \/ Blocked(j))

\* C16: the step that records the failure and aborts changes nothing of the
\* workers, the queue or any job, and main() does nothing afterwards; a job
\* that is in flight after the abort still gets to the end of its POST (it
\* finishes, or waits for ever for an answer that does not come), and the
\* outcome of every finished job is the one its answers determine.
C16_AbortLeavesJobsRunning ==
    /\ [][C16_Frame]_vars
    /\ []C16_Outcome
    /\ \A j \in 1..(MaxDbs + MaxNames) :
           (C12_FailureRecorded /\ C16_InFlight(j)) ~> C16_AtEnd(j)

C16_Witness ==
    /\ pc = "raised"
    /\ result = [ kind |-> "Failure", n |-> 0, job |-> 1 ]
    /\ args.concurrency = 2
    /\ total = 3
    /\ workers = << 3, 2 >>
    /\ C16_InFlight(2)
    /\ C16_InFlight(3)

\* --------------------------------------------------------------------- C17
C17_Endpoint == IF args.use_target THEN "target" ELSE "source"

\* C17: the triggers of a job are a prefix of << non-continuous, continuous >>,
\* all for the job's database and all POSTed to the same server (the target
\* with --use_target, else the source): never more than two, never more than
\* one without --permanent; a finished job has issued exactly one without
\* --permanent, and exactly two with --permanent when its first POST was
\* answered ok.
C17_TriggerSequence ==
    \A j \in Jobs :
        LET t == triggers[j]
        IN  /\ Len(t) <= 2
            /\ \A k \in DOMAIN t :
                   /\ t[k].continuous = (k = 2)
                   /\ t[k].url = C17_Endpoint
                   /\ t[k].db = threads[j]
            /\ ~args.permanent => Len(t) <= 1
            /\ (thread_done(j) /\ ~args.permanent) => Len(t) = 1
            /\ (thread_done(j) /\ args.permanent /\ answers[j][1] = "ok") => Len(t) = 2
            /\ Len(t) = 2 => (args.permanent /\ answers[j][1] = "ok")

C17_Witness ==
    /\ args.permanent
    /\ args.use_target
    /\ Len(threads) = 2
    /\ thread_done(1) /\ Len(triggers[1]) = 2 /\ triggers[1][2].url = "target"
    /\ thread_done(2) /\ Len(triggers[2]) = 1 /\ triggers[2][1].url = "target"

\* --------------------------------------------------------------------- C18
\* the jobs found finished with an exception in the current poll round
C18_ErrorsOfRound == { j \in Jobs : InSeq(j, new_threads_done) /\ thread_exception(j) }

C18_State ==
    result.kind = "Failure" =>
        /\ pc = "raised"
        /\ result.job \in C18_ErrorsOfRound
        /\ \A k \in C18_ErrorsOfRound : result.job <= k
        /\ \A k \in Jobs : (thread_exception(k) /\ k < result.job) =>
               ~C15_Observed(k)

C18_Step == result.kind = "Failure" => result' = result

\* C18: the exception main() re-raises is that of the earliest-submitted job
\* among those found finished with an exception in the poll round of the
\* abort (an earlier-submitted job that also raised was not observed at all),
\* and once a failure has been propagated the result never changes: one
\* failure per batch.
C18_EarliestSubmittedWins == []C18_State /\ [][C18_Step]_vars

C18_Witness ==
    /\ pc = "raised"
    /\ total = 3
    /\ new_threads_done = << 1, 2, 3 >>
    /\ out = << "Succeeded", "Error", "Error" >>
    /\ result = [ kind |-> "Failure", n |-> 0, job |-> 2 ]

\* --------------------------------------------------------------------- C19
\* a name that is neither a system database (with --system_dbs off) nor in
\* the skip list sl, as given or URL-quoted
C19_Eligible(db, sl) ==
    /\ ~(db[1] = "_" /\ ~args.system_dbs)
    /\ db \notin sl
    /\ quote_plus(db) \notin sl

\* the eligible names of s, in the order of s, as they are handed to the jobs
RECURSIVE C19_Expected(_, _)
C19_Expected(s, sl) ==
    IF s = <<>> THEN <<>>
    ELSE (IF C19_Eligible(Head(s), sl) THEN << quote_plus(Head(s)) >> ELSE <<>>)
             \o C19_Expected(Tail(s), sl)

\* the loop of line 251 is over and total has been set
C19_BatchBuilt ==
    \/ pc \in { "while", "scan", "returned" }
    \/ pc = "raised" /\ result.kind = "Failure"

\* C19: while the names are gone through, the jobs submitted so far are
\* exactly the eligible names seen so far, in input order, and they are queued
\* in that order; once the loop is over total is the number of eligible names;
\* every trigger of a job is for the job's own name, so that no trigger is
\* ever issued for a filtered name; and with total = 0 main() is at the loop
\* test with its return enabled, or has returned success for 0 databases, and
\* no snapshot has been emitted.
C19_OnlyEligibleSubmitted ==
    LET sl       == skip_db(args.skip)
        eligible == { n \in DOMAIN args.dbs : C19_Eligible(args.dbs[n], sl) }
        filtered == UNION { { args.dbs[n], quote_plus(args.dbs[n]) } :
                                n \in DOMAIN args.dbs \ eligible }
    IN  /\ pc = "submit" => threads = C19_Expected(SubSeq(args.dbs, 1, i - 1), sl)
        /\ C19_BatchBuilt =>
               /\ threads = C19_Expected(args.dbs, sl)
               /\ total = Len(threads)
               /\ total = Cardinality(eligible)
        /\ \A k \in DOMAIN queue : k > 1 => queue[k - 1] < queue[k]
        /\ \A j \in Jobs : \A k \in DOMAIN triggers[j] :
               /\ triggers[j][k].db = threads[j]
               /\ triggers[j][k].db \notin filtered
        /\ (C19_BatchBuilt /\ total = 0) =>
               /\ pc \in { "while", "returned" }
               /\ pc = "while" => ENABLED Return
               /\ pc = "returned" => result = [ kind |-> "Success", n |-> 0, job |-> 0 ]
               /\ progress = <<>>

C19_Witness ==
    /\ pc = "returned"
    /\ args.dbs = << <<"a", " ", "b">>, <<"a">> >>
    /\ args.skip = <<"z", ",", " ", "a", "+", "b">>
    /\ threads = << <<"a">> >>
    /\ total = 1
    /\ triggers = << << [ url |-> C17_Endpoint, db |-> <<"a">>, continuous |-> FALSE ] >> >>
    /\ progress = << 1, 1 >>
====
